---- MODULE Spec2Model ----
(***************************************************************************)
(* A model of the i3pystatus Buds module (src/i3pystatus/buds.py): the     *)
(* status poll run(), the battery reconciliation it performs, the          *)
(* notifications it displays and the equalizer click handler; and of the   *)
(* Hassio module (src/i3pystatus/hassio.py): its poll and shared cache;   *)
(* of HassioMulti (src/i3pystatus/hassio_multi.py) and of KDEConnect       *)
(* (src/i3pystatus/kdeconnect.py): their polls and click callbacks.        *)
(*                                                                         *)
(* Python values are modelled as follows.  A str is a TLA+ string, built   *)
(* with \o the way the f-strings build it.  An optional payload key is a   *)
(* sequence: <<>> when payload.get(key) gives None, <<v>> when it gives v.  *)
(* None (no output, no payload, no return value) is the record None.       *)
(***************************************************************************)
EXTENDS Integers, Sequences, FiniteSets, TLC

VARIABLES
    use_battery_drift_threshold,  \* setting, buds.py:84
    battery_drift_threshold,      \* setting, buds.py:83
    enable_notifications,         \* setting, buds.py:90
    hide_no_device,               \* setting, buds.py:81
    dynamic_color,                \* setting, buds.py:94
    colors,                       \* self.colors, built by init()
    status,                       \* what the last `earbuds status` call printed
    output,                       \* self.output
    returned,                     \* return value of the last run()
    fdict,                        \* the formatter dict of the last run()
    combined_level,               \* combined_level of the last run()
    notifications,                \* DesktopNotifications displayed by the last handler
    commands,                     \* run_through_shell calls of the last handler
    raised,                       \* exception the last handler ended with
    lastop,                       \* the last handler and its argument
    history,                      \* the handlers of a logged sequence, oldest first
    instances,                    \* the settings of the registered Hassio instances
    hassio_cache,                 \* _hassio_cache, hassio.py:9
    hassio_cache_time,            \* _hassio_cache_time, hassio.py:10
    now,                          \* time.time()
    hassio_output,                \* self.output of each Hassio instance
    hide_state,                   \* setting of HassioMulti, hassio_multi.py:60
    entity_index,                 \* HassioMulti._entity_index
    entities_data,                \* HassioMulti._entities_data
    multi_states,                 \* the /api/states response the last run() read
    multi_output,                 \* self.output of HassioMulti
    cdict,                        \* the formatter dict of the last run()
    posted,                       \* the requests.post calls of the last handler
    multi_op,                     \* the last HassioMulti handler
    device_id,                    \* setting of KDEConnect, kdeconnect.py:47
    current_device_id,            \* KDEConnect._current_device_id
    device_name,                  \* KDEConnect._device_name
    notification_index,           \* KDEConnect._notification_index
    kde_notifications,            \* KDEConnect._notifications
    kde_output,                   \* self.output of KDEConnect
    dismissed,                    \* the _dismiss_notification() calls of the last
                                  \* callback, the device being <<>> for None
    kde_raised,                   \* exception the last callback ended with
    kde_op,                       \* the last KDEConnect handler, and the index and
                                  \* list it found
    pc,                           \* where the poll thread and the click thread are
    current,                      \* the local `current` of dismiss_notification
    read_at                       \* the index and list length of the last subscript
                                  \* of a callback

vars == <<use_battery_drift_threshold, battery_drift_threshold, enable_notifications,
          hide_no_device, dynamic_color, colors, status, output, returned, fdict,
          combined_level, notifications, commands, raised, lastop, history,
          instances, hassio_cache, hassio_cache_time, now, hassio_output,
          hide_state, entity_index, entities_data, multi_states, multi_output, cdict,
          posted, multi_op,
          device_id, current_device_id, device_name, notification_index,
          kde_notifications, kde_output, dismissed, kde_raised, kde_op, pc, current,
          read_at>>

buds_vars == <<use_battery_drift_threshold, battery_drift_threshold, enable_notifications,
               hide_no_device, dynamic_color, colors, status, output, returned, fdict,
               combined_level, notifications, commands, raised, lastop>>

hassio_vars == <<instances, hassio_cache, hassio_cache_time, now, hassio_output>>

multi_vars == <<hide_state, entity_index, entities_data, multi_states, multi_output, cdict,
                posted, multi_op>>

kde_vars == <<device_id, current_device_id, device_name, notification_index,
              kde_notifications, kde_output, dismissed, kde_raised, kde_op, pc, current,
              read_at>>

settings == <<use_battery_drift_threshold, battery_drift_threshold, enable_notifications,
              hide_no_device, dynamic_color, colors>>

(***************************************************************************)
(* Bounds of the model.                                                    *)
(***************************************************************************)
MaxLevel == 7            \* battery levels 0..MaxLevel, and battery_limit, are polled
MaxThreshold == 3        \* battery_drift_threshold is drawn from 0..MaxThreshold
MaxPlacementCode == 3    \* placement codes 1..MaxPlacementCode, and a missing one
MaxEqualizerCode == 6    \* equalizer_type codes 0..MaxEqualizerCode, and a missing one
MaxEqLevel == 2          \* battery levels 0..MaxEqLevel under the click handlers
MaxSweepLevel == 3       \* battery levels 0..MaxSweepLevel in a logged sequence of polls
MaxPolls == 4            \* a logged sequence has at most MaxPolls polls
MaxClicks == 6           \* a logged sequence has at most MaxClicks scroll steps
MaxTimeout == 2          \* cache_timeout is unset or drawn from 0..MaxTimeout
MaxInterval == 2         \* interval is drawn from 1..MaxInterval
MaxRuns == 4             \* a logged sequence has at most MaxRuns Hassio handlers

(***************************************************************************)
(* Python values.                                                          *)
(***************************************************************************)
None == [none |-> TRUE]
Missing == <<>>
Some(v) == <<v>>

\* dict.get(key, default) on an optional key
get(opt, default) == IF opt = Missing THEN default ELSE opt[1]

Digit(d) ==
    CASE d = 0 -> "0" [] d = 1 -> "1" [] d = 2 -> "2" [] d = 3 -> "3" [] d = 4 -> "4"
      [] d = 5 -> "5" [] d = 6 -> "6" [] d = 7 -> "7" [] d = 8 -> "8" [] d = 9 -> "9"

RECURSIVE IntStr(_)
\* f"{n}" for an int n >= 0: its decimal digits
IntStr(n) == IF n < 10 THEN Digit(n) ELSE IntStr(n \div 10) \o Digit(n % 10)

Min(a, b) == IF a <= b THEN a ELSE b
Max(a, b) == IF a >= b THEN a ELSE b
Abs(a) == IF a < 0 THEN 0 - a ELSE a

(***************************************************************************)
(* Class constants of Buds.                                                *)
(***************************************************************************)
earbuds_binary == "earbuds"
battery_limit == 100
wearing_symbol == "W"
idle_symbol == "I"
case_symbol == "C"
battery_case_symbol == "C"
connected_color == <<0, 255, 0>>         \* "#00FF00"
disconnected_color == <<255, 255, 255>>  \* "#FFFFFF"
start_color == <<0, 255, 0>>             \* ColorRangeModule.start_color
end_color == <<255, 0, 0>>               \* ColorRangeModule.end_color

\* class BudsEqualizer(Enum): the member values and their names
BudsEqualizerValues == 0..5
BudsEqualizerLen == Cardinality(BudsEqualizerValues)
BudsEqualizerName(v) ==
    CASE v = 0 -> "off" [] v = 1 -> "bass" [] v = 2 -> "soft"
      [] v = 3 -> "dynamic" [] v = 4 -> "clear" [] v = 5 -> "treble"

\* str.capitalize() on the member names
capitalize(name) ==
    CASE name = "off" -> "Off" [] name = "bass" -> "Bass" [] name = "soft" -> "Soft"
      [] name = "dynamic" -> "Dynamic" [] name = "clear" -> "Clear"
      [] name = "treble" -> "Treble"

\* class BudsPlacementStatus(IntEnum)
PlacementWearing == 1
PlacementIdle == 2
PlacementCase == 3

(***************************************************************************)
(* ColorRangeModule: the colour table and its lookup.                      *)
(***************************************************************************)
\* get_hex_color_range(from, to, limit): limit + 1 colours, entry i interpolated
\* per RGB channel between `from` (entry 0) and `to` (entry limit)
get_hex_color_range(from, to, limit) ==
    [i \in 0..limit |->
        [c \in 1..3 |-> from[c] + ((to[c] - from[c]) * i) \div limit]]

\* get_gradient(value, colors, upper_limit): the colour at index value,
\* clamped to the table
get_gradient(value, table, upper_limit) ==
    table[Max(0, Min(value, upper_limit))]

\* Buds.init: the table self.colors for a dynamic_color setting
init_forward(dynamic) ==
    LET endc == IF dynamic THEN end_color ELSE connected_color
        startc == IF dynamic THEN start_color ELSE connected_color
    IN  get_hex_color_range(startc, endc, battery_limit)

init(dynamic) ==
    LET endc == IF dynamic THEN end_color ELSE connected_color
        startc == IF dynamic THEN start_color ELSE connected_color
    IN  get_hex_color_range(endc, startc, battery_limit)

(***************************************************************************)
(* The pure helpers of Buds.                                               *)
(***************************************************************************)
DesktopNotification(title, body, icon, urgency) ==
    [title |-> title, body |-> body, icon |-> icon, urgency |-> urgency]

\* `placement == BudsPlacementStatus.case` on an optional placement code
OnCase(placement) == placement = Some(PlacementCase)

\* combined_level of Buds.battery_display_status
CombinedLevelMin(left_battery, right_battery) == Min(left_battery, right_battery)

CombinedLevel(left_battery, right_battery) ==
    IF left_battery = 0 \/ right_battery = 0
    THEN Max(left_battery, right_battery)
    ELSE Min(left_battery, right_battery)

\* the branch of Buds.battery_display_status that shows the combined level
ShowCombinedCased(left_battery, right_battery, placement_left, placement_right) ==
    /\ use_battery_drift_threshold
    /\ Abs(left_battery - right_battery) <= battery_drift_threshold

ShowCombinedEqual(left_battery, right_battery, placement_left, placement_right) ==
    \/ left_battery = right_battery
    \/ /\ use_battery_drift_threshold
       /\ Abs(left_battery - right_battery) <= battery_drift_threshold
       /\ ~(OnCase(placement_left) \/ OnCase(placement_right))

ShowCombined(left_battery, right_battery, placement_left, placement_right) ==
    /\ use_battery_drift_threshold
    /\ Abs(left_battery - right_battery) <= battery_drift_threshold
    /\ ~(OnCase(placement_left) \/ OnCase(placement_right))

\* the branch of Buds.battery_display_status that notifies of the drift
NotifyDriftUnbounded(left_battery, right_battery, placement_left, placement_right) ==
    /\ use_battery_drift_threshold
    /\ ~ShowCombined(left_battery, right_battery, placement_left, placement_right)
    /\ battery_drift_threshold < Abs(left_battery - right_battery)
    /\ ~(OnCase(placement_left) \/ OnCase(placement_right))
    /\ enable_notifications

NotifyDriftUpTo(left_battery, right_battery, placement_left, placement_right) ==
    /\ use_battery_drift_threshold
    /\ ~ShowCombined(left_battery, right_battery, placement_left, placement_right)
    /\ Abs(left_battery - right_battery) <= battery_drift_threshold * 2
    /\ enable_notifications

NotifyDriftEdge(left_battery, right_battery, placement_left, placement_right) ==
    /\ use_battery_drift_threshold
    /\ ~ShowCombined(left_battery, right_battery, placement_left, placement_right)
    /\ battery_drift_threshold < Abs(left_battery - right_battery)
    /\ Abs(left_battery - right_battery) <= battery_drift_threshold * 2
    /\ ~(OnCase(placement_left) \/ OnCase(placement_right))
    /\ enable_notifications
    /\ ~(/\ status # None
          /\ status.payload # None
          /\ status.payload.batt_left = left_battery
          /\ status.payload.batt_right = right_battery)

NotifyDrift(left_battery, right_battery, placement_left, placement_right) ==
    /\ use_battery_drift_threshold
    /\ ~ShowCombined(left_battery, right_battery, placement_left, placement_right)
    /\ battery_drift_threshold < Abs(left_battery - right_battery)
    /\ Abs(left_battery - right_battery) <= battery_drift_threshold * 2
    /\ ~(OnCase(placement_left) \/ OnCase(placement_right))
    /\ enable_notifications

\* Buds.battery_display_status: the battery text, the combined level and the
\* notifications it displays
battery_display_status(left_battery, right_battery, placement_left, placement_right) ==
    [battery_display |->
        IF ShowCombined(left_battery, right_battery, placement_left, placement_right)
        THEN IntStr(CombinedLevel(left_battery, right_battery))
        ELSE IntStr(left_battery) \o " " \o IntStr(right_battery),
     combined_level |-> CombinedLevel(left_battery, right_battery),
     notified |->
        IF NotifyDrift(left_battery, right_battery, placement_left, placement_right)
        THEN <<DesktopNotification("Buds",
                 "Battery drift occurred L" \o IntStr(left_battery) \o " "
                     \o IntStr(right_battery) \o "R",
                 "battery", 1)>>
        ELSE <<>>]

\* the test of Buds.battery_case_display that shows the case battery
ShowCaseOne(placement_left, placement_right) ==
    OnCase(placement_left) # OnCase(placement_right)

ShowCase(placement_left, placement_right) ==
    OnCase(placement_left) \/ OnCase(placement_right)

\* the test of Buds.battery_case_display that notifies of equal levels
NotifyReachedBoth(left_battery, right_battery, placement_left, placement_right) ==
    /\ Abs(left_battery - right_battery) = 0
    /\ enable_notifications

NotifyReachedNear(left_battery, right_battery, placement_left, placement_right) ==
    /\ Abs(left_battery - right_battery) <= 1
    /\ ~(OnCase(placement_left) /\ OnCase(placement_right))
    /\ enable_notifications

NotifyReached(left_battery, right_battery, placement_left, placement_right) ==
    /\ Abs(left_battery - right_battery) = 0
    /\ ~(OnCase(placement_left) /\ OnCase(placement_right))
    /\ enable_notifications

\* Buds.battery_case_display: the case battery text and the notifications it
\* displays
battery_case_display(battery_case, left_battery, right_battery, placement_left, placement_right) ==
    IF ShowCase(placement_left, placement_right)
    THEN [battery_case_display |-> " " \o IntStr(battery_case) \o battery_case_symbol,
          notified |->
            IF NotifyReached(left_battery, right_battery, placement_left,
                             placement_right)
            THEN <<DesktopNotification("Buds",
                     "Battery level reached L" \o IntStr(left_battery) \o " "
                         \o IntStr(right_battery) \o "R",
                     "battery", 1)>>
            ELSE <<>>]
    ELSE [battery_case_display |-> "", notified |-> <<>>]

\* Buds.touchpad_lock_status on an optional tab_lock_status
touchpad_lock_status(tab_lock_status) ==
    IF tab_lock_status # Missing
       /\ ~tab_lock_status[1].touch_an_hold_on /\ ~tab_lock_status[1].tap_on
    THEN " TL" ELSE ""

\* Buds.translate_placement on an optional placement code
translate_placement_known(placement) ==
    IF placement = Some(PlacementWearing) THEN wearing_symbol
    ELSE IF placement = Some(PlacementIdle) THEN idle_symbol
    ELSE case_symbol

translate_placement(placement) ==
    IF placement = Some(PlacementWearing) THEN wearing_symbol
    ELSE IF placement = Some(PlacementIdle) THEN idle_symbol
    ELSE IF placement = Some(PlacementCase) THEN case_symbol
    ELSE "?"

\* Buds.format filled from the formatter dict
format(fd) ==
    fd.device_model \o " " \o "L" \o fd.placement_left \o fd.battery \o "R"
        \o fd.placement_right \o fd.battery_case \o fd.amb \o fd.anc
        \o fd.equalizer \o fd.touchpad

(***************************************************************************)
(* The status poll.                                                        *)
(***************************************************************************)
\* BudsEqualizer(value): the member, or ValueError when value is no member
IsBudsEqualizer(value) == value \in BudsEqualizerValues

StatusCommand == earbuds_binary \o " status -o json -q"

\* self.output of Buds.run when loads() raises JSONDecodeError
malformed_output_shown ==
    IF ~hide_no_device
    THEN [full_text |-> "Disconnected", color |-> disconnected_color]
    ELSE None

malformed_output == None

\* self.output of Buds.run when the status has no payload
disconnected_output ==
    IF ~hide_no_device
    THEN [full_text |-> "Disconnected", color |-> disconnected_color]
    ELSE None

\* color of Buds.run for a connected device at combined_level
color_by_level(level) == get_gradient(level, init(TRUE), battery_limit)

color(level) ==
    IF dynamic_color
    THEN get_gradient(level, colors, battery_limit)
    ELSE connected_color

\* Buds.run on the status output st: the new self.output, the value returned,
\* the locals fdict and combined_level, the notifications displayed and the
\* exception raised.  st.json is FALSE when loads() raises JSONDecodeError.
run(st) ==
    IF ~st.json
    THEN [output |-> malformed_output, returned |-> None, fdict |-> None,
          combined_level |-> None, notified |-> <<>>, raised |-> "none"]
    ELSE IF st.payload = None
    THEN [output |-> disconnected_output,
          returned |-> None, fdict |-> None, combined_level |-> None,
          notified |-> <<>>, raised |-> "none"]
    ELSE IF ~IsBudsEqualizer(get(st.payload.equalizer_type, 0))
    THEN [output |-> output, returned |-> None, fdict |-> None, combined_level |-> None,
          notified |-> <<>>, raised |-> "ValueError"]
    ELSE
      LET payload == st.payload
          equalizer_type == get(payload.equalizer_type, 0)
          battery == battery_display_status(payload.batt_left, payload.batt_right,
                       payload.placement_left, payload.placement_right)
          case == battery_case_display(payload.batt_case, payload.batt_left,
                       payload.batt_right, payload.placement_left,
                       payload.placement_right)
          fd == [amb |-> IF payload.ambient_sound_enabled THEN " AMB" ELSE "",
                 anc |-> IF payload.noise_reduction THEN " ANC" ELSE "",
                 battery |-> battery.battery_display,
                 left_battery |-> payload.batt_left,
                 right_battery |-> payload.batt_right,
                 battery_case |-> case.battery_case_display,
                 device_model |-> payload.model,
                 equalizer |-> IF equalizer_type = 0 THEN ""
                               ELSE " " \o capitalize(BudsEqualizerName(equalizer_type)),
                 placement_left |-> translate_placement(payload.placement_left),
                 placement_right |-> translate_placement(payload.placement_right),
                 touchpad |-> touchpad_lock_status(payload.tab_lock_status)]
      IN  [output |-> [full_text |-> format(fd), color |-> color(battery.combined_level)],
           returned |-> payload, fdict |-> fd,
           combined_level |-> battery.combined_level,
           notified |-> battery.notified \o case.notified,
           raised |-> "none"]

\* The poll: run() reads the status output st
Run(st) ==
    \E r \in {run(st)} :
        /\ status' = st
        /\ output' = r.output
        /\ returned' = r.returned
        /\ fdict' = r.fdict
        /\ combined_level' = r.combined_level
        /\ notifications' = r.notified
        /\ commands' = <<StatusCommand>>
        /\ raised' = r.raised
        /\ lastop' = [op |-> "run", adjustment |-> None]
        /\ UNCHANGED settings
        /\ UNCHANGED hassio_vars
        /\ UNCHANGED multi_vars
        /\ UNCHANGED kde_vars

(***************************************************************************)
(* The equalizer click handler.                                            *)
(***************************************************************************)
\* Python's a % n for n > 0: the remainder of the floored division
PyMod(a, n) == a - n * (a \div n)

\* the remainder of the division truncated towards zero
TruncMod(a, n) == IF a >= 0 THEN a % n ELSE 0 - ((0 - a) % n)

\* the click arguments: a BudsEqualizer member, or the int -1 or +1
Member(v) == [kind |-> "BudsEqualizer", value |-> v]
Step(d) == [kind |-> "int", value |-> d]
Adjustments == {Member(v) : v \in BudsEqualizerValues} \cup {Step(0 - 1), Step(1)}

\* new_eq_value of Buds.equalizer_set
new_eq_value_trunc(current_eq, adjustment) ==
    IF adjustment.kind = "BudsEqualizer"
    THEN adjustment.value
    ELSE TruncMod(current_eq + adjustment.value, BudsEqualizerLen)

new_eq_value_short(current_eq, adjustment) ==
    IF adjustment.kind = "BudsEqualizer"
    THEN adjustment.value
    ELSE PyMod(current_eq + adjustment.value, BudsEqualizerLen - 1)

new_eq_value_relative(current_eq, adjustment) ==
    PyMod(current_eq + adjustment.value, BudsEqualizerLen)

new_eq_value(current_eq, adjustment) ==
    IF adjustment.kind = "BudsEqualizer"
    THEN adjustment.value
    ELSE PyMod(current_eq + adjustment.value, BudsEqualizerLen)

\* the part of Buds.equalizer_set after its poll r: the commands sent and the
\* exception raised
set_equalizer(adjustment, r) ==
    IF r.raised # "none" \/ r.returned = None
    THEN [sent |-> <<>>, raised |-> r.raised]
    ELSE LET current_eq == get(r.returned.equalizer_type, 0)
             new == new_eq_value(current_eq, adjustment)
         IN  IF IsBudsEqualizer(new)
             THEN [sent |-> <<earbuds_binary \o " set equalizer "
                                \o BudsEqualizerName(new)>>,
                   raised |-> "none"]
             ELSE [sent |-> <<>>, raised |-> "ValueError"]

\* Buds.equalizer_set on the status output st: its poll, the commands sent
\* after it and the exception raised
equalizer_set_last_seen(adjustment, st) ==
    LET r == [run(st) EXCEPT !.output = output, !.notified = <<>>]
        e == set_equalizer(adjustment, r)
    IN  [poll |-> r, sent |-> e.sent, raised |-> e.raised]

equalizer_set(adjustment, st) ==
    LET r == run(st)
        e == set_equalizer(adjustment, r)
    IN  [poll |-> r, sent |-> e.sent, raised |-> e.raised]

EqualizerSet(adjustment, st) ==
    \E e \in {equalizer_set(adjustment, st)} :
        /\ status' = st
        /\ output' = e.poll.output
        /\ returned' = e.poll.returned
        /\ fdict' = e.poll.fdict
        /\ combined_level' = e.poll.combined_level
        /\ notifications' = e.poll.notified
        /\ commands' = <<StatusCommand>> \o e.sent
        /\ raised' = e.raised
        /\ lastop' = [op |-> "equalizer_set", adjustment |-> adjustment]
        /\ UNCHANGED settings
        /\ UNCHANGED hassio_vars
        /\ UNCHANGED multi_vars
        /\ UNCHANGED kde_vars

(***************************************************************************)
(* The ambient sound and noise control click handlers.                     *)
(***************************************************************************)
\* Buds.toggle_amb on the status output st: its poll, the commands sent after
\* it and the exception raised
toggle_amb_blind(st) ==
    LET r == run(st)
    IN  [poll |-> r,
         sent |-> IF r.returned # None /\ r.returned.ambient_sound_enabled
                  THEN <<earbuds_binary \o " set ambientsound 0">>
                  ELSE <<earbuds_binary \o " set ambientsound 1">>,
         raised |-> r.raised]

toggle_amb(st) ==
    LET r == run(st)
    IN  [poll |-> r,
         sent |-> IF r.raised # "none" \/ r.returned = None THEN <<>>
                  ELSE IF r.returned.ambient_sound_enabled
                  THEN <<earbuds_binary \o " set ambientsound 0">>
                  ELSE <<earbuds_binary \o " set ambientsound 1">>,
         raised |-> r.raised]

\* Buds.toggle_anc on the status output st
toggle_anc(st) ==
    LET r == run(st)
    IN  [poll |-> r,
         sent |-> IF r.raised # "none" \/ r.returned = None THEN <<>>
                  ELSE IF r.returned.noise_reduction
                  THEN <<earbuds_binary \o " set anc false">>
                  ELSE <<earbuds_binary \o " set anc true">>,
         raised |-> r.raised]

\* a toggle handler op whose effects are e, reading the status output st
Toggled(op, e, st) ==
    /\ status' = st
    /\ output' = e.poll.output
    /\ returned' = e.poll.returned
    /\ fdict' = e.poll.fdict
    /\ combined_level' = e.poll.combined_level
    /\ notifications' = e.poll.notified
    /\ commands' = <<StatusCommand>> \o e.sent
    /\ raised' = e.raised
    /\ lastop' = [op |-> op, adjustment |-> None]
    /\ UNCHANGED settings
    /\ UNCHANGED hassio_vars
    /\ UNCHANGED multi_vars
    /\ UNCHANGED kde_vars

ToggleAmb(st) == \E e \in {toggle_amb(st)} : Toggled("toggle_amb", e, st)

ToggleAnc(st) == \E e \in {toggle_anc(st)} : Toggled("toggle_anc", e, st)

(***************************************************************************)
(* The Hassio module (src/i3pystatus/hassio.py): the shared state cache    *)
(* and the poll.  A dict is a function whose domain is its set of keys.    *)
(***************************************************************************)
good_color == "#00FF00"
bad_color == "#FF0000"
desired_state == "on"

EmptyDict == [k \in {} |-> None]
SetItem(dict, key, value) ==
    [k \in (DOMAIN dict) \cup {key} |-> IF k = key THEN value ELSE dict[k]]

\* time.time() when the modules are loaded: later than every timeout
Epoch == 10

\* the Home Assistant servers and the states they report
ServerA == "http://a:8123"
ServerB == "http://b:8123"
Token == "token"
Entity(entity_id, state, friendly_name) ==
    [entity_id |-> entity_id, state |-> state,
     attributes |-> [friendly_name |-> friendly_name]]
States(hassio_url) ==
    IF hassio_url = ServerA
    THEN <<Entity("light.a", "on", "Light A"), Entity("switch.b", "off", "Switch B")>>
    ELSE <<Entity("light.a", "off", "Light A")>>

\* the for loop of Hassio._fetch_entity: the first entity of all_states with
\* the entity_id, or None
find_entity(all_states, entity_id) ==
    IF \E n \in 1..Len(all_states) : all_states[n].entity_id = entity_id
    THEN all_states[CHOOSE n \in 1..Len(all_states) :
                        /\ all_states[n].entity_id = entity_id
                        /\ \A m \in 1..(n - 1) : all_states[m].entity_id # entity_id]
    ELSE None

\* requests.get(url): the decoded body of the response
get_states(hassio_url) == States(hassio_url)
get_state(hassio_url, entity_id) == find_entity(States(hassio_url), entity_id)

\* an optional setting in a condition: None (unset) and 0 are false
Truthy(setting) == setting # Missing /\ setting # Some(0)

\* cache_timeout of Hassio._fetch_entity
effective_timeout(self) ==
    IF Truthy(self.cache_timeout) THEN self.cache_timeout[1] ELSE self.interval

cache_key(self) == <<self.hassio_url, self.hassio_token>>

\* the test of Hassio._fetch_entity for fresh cached data
is_fresh(cache_age, cache_timeout) == cache_age < cache_timeout

\* Hassio._fetch_entity when _hassio_cache_time is cache_time: the entity
\* returned, the URLs requested, and the cache afterwards
fetch(self, entity_id, cache_time) ==
    IF self.use_cache
    THEN IF /\ cache_key(self) \in DOMAIN hassio_cache
            /\ is_fresh(now - cache_time[cache_key(self)], effective_timeout(self))
         THEN [entity |-> find_entity(hassio_cache[cache_key(self)], entity_id),
               requested |-> <<>>,
               cache |-> hassio_cache, cache_time |-> cache_time]
         ELSE [entity |-> find_entity(get_states(self.hassio_url), entity_id),
               requested |-> <<self.hassio_url \o "/api/states">>,
               cache |-> SetItem(hassio_cache, cache_key(self),
                                 get_states(self.hassio_url)),
               cache_time |-> SetItem(cache_time, cache_key(self), now)]
    ELSE [entity |-> get_state(self.hassio_url, entity_id),
          requested |-> <<self.hassio_url \o "/api/states/" \o entity_id>>,
          cache |-> hassio_cache, cache_time |-> cache_time]

fetch_entity(self, entity_id) == fetch(self, entity_id, hassio_cache_time)

\* _hassio_cache_time after the invalidation of Hassio.refresh
invalidate_never(self) == hassio_cache_time

invalidate(self) ==
    IF cache_key(self) \in DOMAIN hassio_cache_time
    THEN SetItem(hassio_cache_time, cache_key(self), 0)
    ELSE hassio_cache_time

\* self.output of Hassio.run for the entity fetched
hassio_display(self, entity) ==
    IF entity = None
    THEN [full_text |-> "Entity not found: " \o self.entity_id, color |-> bad_color]
    ELSE [full_text |-> entity.attributes.friendly_name \o ": " \o entity.state,
          color |-> IF entity.state = desired_state THEN good_color ELSE bad_color]

\* Hassio.run of instance i, logged with the time, the entity fetched and the
\* URLs requested
HassioRun(i) ==
    \E f \in {fetch_entity(instances[i], instances[i].entity_id)} :
        /\ hassio_cache' = f.cache
        /\ hassio_cache_time' = f.cache_time
        /\ hassio_output' = [hassio_output EXCEPT ![i] = hassio_display(instances[i], f.entity)]
        /\ history' = Append(history, [op |-> "run", instance |-> i, time |-> now,
                                       entity |-> f.entity, requested |-> f.requested])
        /\ UNCHANGED <<instances, now>>
        /\ UNCHANGED buds_vars
        /\ UNCHANGED multi_vars
        /\ UNCHANGED kde_vars

\* Hassio.refresh of instance i, logged like a run
HassioRefresh(i) ==
    \E f \in {fetch(instances[i], instances[i].entity_id, invalidate(instances[i]))} :
        /\ hassio_cache' = f.cache
        /\ hassio_cache_time' = f.cache_time
        /\ hassio_output' = [hassio_output EXCEPT ![i] = hassio_display(instances[i], f.entity)]
        /\ history' = Append(history, [op |-> "refresh", instance |-> i, time |-> now,
                                       entity |-> f.entity, requested |-> f.requested])
        /\ UNCHANGED <<instances, now>>
        /\ UNCHANGED buds_vars
        /\ UNCHANGED multi_vars
        /\ UNCHANGED kde_vars

\* a second passes
Tick ==
    /\ now' = now + 1
    /\ UNCHANGED <<instances, hassio_cache, hassio_cache_time, hassio_output, history>>
    /\ UNCHANGED buds_vars
    /\ UNCHANGED multi_vars
    /\ UNCHANGED kde_vars

(***************************************************************************)
(* The HassioMulti module (src/i3pystatus/hassio_multi.py).                *)
(***************************************************************************)
\* entity ids are "<domain>.<object>"
Domains == {"light", "switch", "sensor"}
Objects == {"a", "b", "c", "z"}
EntityId(domain, object) == domain \o "." \o object

\* entity_id.split('.')[0]
domain_of(entity_id) ==
    CHOOSE d \in Domains : \E o \in Objects : entity_id = EntityId(d, o)

\* the entity_ids setting
entity_ids == <<EntityId("light", "a"), EntityId("switch", "b"), EntityId("sensor", "c")>>

\* entity_map[eid] of HassioMulti._fetch_all_states: the last entity of
\* all_states with the id
entity_map(all_states, eid) ==
    all_states[CHOOSE n \in 1..Len(all_states) :
                  /\ all_states[n].entity_id = eid
                  /\ \A m \in (n + 1)..Len(all_states) : all_states[m].entity_id # eid]

\* the result of HassioMulti._fetch_all_states from the id at position i on
RECURSIVE tracked(_, _)
tracked(all_states, i) ==
    IF i > Len(entity_ids) THEN <<>>
    ELSE (IF \E n \in 1..Len(all_states) : all_states[n].entity_id = entity_ids[i]
          THEN <<entity_map(all_states, entity_ids[i])>>
          ELSE <<>>) \o tracked(all_states, i + 1)

fetch_all_states(all_states) == tracked(all_states, 1)

\* e['state'] != self.hide_state
shown_always(state) == TRUE

shown(state) == hide_state # Some(state)

\* the entities of data that are not hidden
RECURSIVE visible(_)
visible(data) ==
    IF data = <<>> THEN <<>>
    ELSE (IF shown(Head(data).state) THEN <<Head(data)>> ELSE <<>>) \o visible(Tail(data))

\* HassioMulti.run on the response all_states: the entities kept, the index,
\* the formatter dict, if one is built, and the output
multi_run(all_states) ==
    LET data == fetch_all_states(all_states)
        visible_entities == visible(data)
        index == PyMod(entity_index, Len(visible_entities))
        entity == visible_entities[index + 1]
    IN  IF data = <<>>
        THEN [data |-> data, index |-> entity_index, cdict |-> None,
              output |-> [full_text |-> "No entities found", color |-> bad_color]]
        ELSE IF visible_entities = <<>>
        THEN [data |-> data, index |-> entity_index, cdict |-> None,
              output |-> [full_text |-> ""]]
        ELSE [data |-> data, index |-> index,
              cdict |-> [friendly_name |-> entity.attributes.friendly_name,
                         entity_id |-> entity.entity_id,
                         state |-> entity.state,
                         entity_index |-> index + 1,
                         entity_count |-> Len(visible_entities)],
              output |-> [full_text |-> entity.attributes.friendly_name \o ": "
                                           \o entity.state,
                          color |-> IF entity.state = desired_state
                                    THEN good_color ELSE bad_color]]

\* HassioMulti._get_current_entity_id: <<entity_id>>, or <<>> for None
get_current_entity_id ==
    IF visible(entities_data) # <<>> /\ entity_index < Len(visible(entities_data))
    THEN Some(visible(entities_data)[entity_index + 1].entity_id)
    ELSE Missing

\* _entity_index after HassioMulti.next_entity and prev_entity
next_index_clamped ==
    IF visible(entities_data) # <<>>
    THEN Min(entity_index + 1, Len(visible(entities_data)) - 1)
    ELSE entity_index

next_index ==
    IF visible(entities_data) # <<>>
    THEN PyMod(entity_index + 1, Len(visible(entities_data)))
    ELSE entity_index

prev_index ==
    IF visible(entities_data) # <<>>
    THEN PyMod(entity_index - 1, Len(visible(entities_data)))
    ELSE entity_index

\* the post of HassioMulti.toggle
toggle_posts ==
    IF get_current_entity_id # Missing
    THEN <<[url |-> ServerA \o "/api/services/" \o domain_of(get_current_entity_id[1])
                       \o "/toggle",
            json |-> [entity_id |-> get_current_entity_id[1]]]>>
    ELSE <<>>

\* the handlers of HassioMulti; run() reads the response all_states
MultiRun(all_states) ==
    \E r \in {multi_run(all_states)} :
        /\ multi_states' = all_states
        /\ entities_data' = r.data
        /\ entity_index' = r.index
        /\ cdict' = r.cdict
        /\ multi_output' = r.output
        /\ posted' = <<>>
        /\ multi_op' = "run"
        /\ UNCHANGED hide_state
        /\ UNCHANGED buds_vars
        /\ UNCHANGED hassio_vars
        /\ UNCHANGED kde_vars

MultiNext ==
    /\ entity_index' = next_index
    /\ posted' = <<>>
    /\ multi_op' = "next_entity"
    /\ UNCHANGED <<hide_state, entities_data, multi_states, multi_output, cdict>>
    /\ UNCHANGED buds_vars
    /\ UNCHANGED hassio_vars
    /\ UNCHANGED kde_vars

MultiPrev ==
    /\ entity_index' = prev_index
    /\ posted' = <<>>
    /\ multi_op' = "prev_entity"
    /\ UNCHANGED <<hide_state, entities_data, multi_states, multi_output, cdict>>
    /\ UNCHANGED buds_vars
    /\ UNCHANGED hassio_vars
    /\ UNCHANGED kde_vars

MultiToggle ==
    /\ posted' = toggle_posts
    /\ multi_op' = "toggle"
    /\ UNCHANGED <<hide_state, entity_index, entities_data, multi_states, multi_output, cdict>>
    /\ UNCHANGED buds_vars
    /\ UNCHANGED hassio_vars
    /\ UNCHANGED kde_vars

(***************************************************************************)
(* The status outputs polled, and the specifications.                      *)
(***************************************************************************)
Malformed == [json |-> FALSE, payload |-> None]
NoDevice == [json |-> TRUE, payload |-> None]
Connected(payload) == [json |-> TRUE, payload |-> payload]

Levels == (0..MaxLevel) \cup {battery_limit}
CaseLevels == {0, battery_limit}
Placements == {Missing} \cup {Some(c) : c \in 1..MaxPlacementCode}
EqualizerCodes == {Missing} \cup {Some(c) : c \in 0..MaxEqualizerCode}
Unlocked == Some([touch_an_hold_on |-> TRUE, tap_on |-> TRUE])

\* the payloads of the battery polls: every level pair and placement pair
BatteryPayloads ==
    [model : {"Buds2"}, batt_left : Levels, batt_right : Levels, batt_case : CaseLevels,
     placement_left : Placements, placement_right : Placements,
     equalizer_type : {Some(0)}, ambient_sound_enabled : {FALSE},
     noise_reduction : {FALSE}, tab_lock_status : {Unlocked}]

\* the payloads under the click handlers: every equalizer code, with the
\* right bud worn and depleted
EqPayloads ==
    [model : {"Buds2"}, batt_left : 0..MaxEqLevel, batt_right : {0},
     batt_case : {battery_limit},
     placement_left : {Some(PlacementWearing), Some(PlacementCase)},
     placement_right : {Some(PlacementWearing)},
     equalizer_type : EqualizerCodes, ambient_sound_enabled : {FALSE},
     noise_reduction : {FALSE}, tab_lock_status : {Unlocked}]

BatteryStatuses == {Malformed, NoDevice} \cup {Connected(p) : p \in BatteryPayloads}
EqStatuses == {Malformed, NoDevice} \cup {Connected(p) : p \in EqPayloads}

\* The status outputs a handler may read after prev was read: between two reads
\* the device changes in at most one reading, or connects or disconnects.
Drift(prev, payloads, statuses) ==
    IF prev = None \/ prev.payload = None
    THEN statuses
    ELSE {Malformed, NoDevice}
         \cup {Connected(p) : p \in {q \in
                {[prev.payload EXCEPT !.batt_left = v] : v \in Levels}
                \cup {[prev.payload EXCEPT !.batt_right = v] : v \in Levels}
                \cup {[prev.payload EXCEPT !.batt_case = v] : v \in CaseLevels}
                \cup {[prev.payload EXCEPT !.placement_left = v] : v \in Placements}
                \cup {[prev.payload EXCEPT !.placement_right = v] : v \in Placements}
                \cup {[prev.payload EXCEPT !.equalizer_type = v] : v \in EqualizerCodes}
                \cup {[prev.payload EXCEPT !.ambient_sound_enabled = v] : v \in BOOLEAN}
                \cup {[prev.payload EXCEPT !.noise_reduction = v] : v \in BOOLEAN}
                : q \in payloads}}

(***************************************************************************)
(* The KDEConnect module (src/i3pystatus/kdeconnect.py).  An index is the  *)
(* Python index, from 0; the TLA+ sequence is subscripted at index + 1.    *)
(* The device id and _current_device_id are optional values: <<>> is None. *)
(* A formatp() call is kept as its format string and its arguments.        *)
(***************************************************************************)
MaxNotifications == 3    \* the phone shows notifications 1..MaxNotifications

kde_format == "{device_name}: {notification_count} notif"
format_no_notifications == "{device_name}: No notifications"
kde_color == "#FFFFFF"
color_no_notifications == "#888888"

\* a notification as _get_notifications() returns it
Notification(n) ==
    [id |-> n, app_name |-> "Signal", title |-> "t" \o IntStr(n), body |-> "",
     dismissable |-> n # 2]

RECURSIVE Ascending(_)
\* the notifications of ids in the order of their ids
Ascending(ids) ==
    IF ids = {} THEN <<>>
    ELSE LET n == CHOOSE m \in ids : \A k \in ids : m <= k
         IN <<Notification(n)>> \o Ascending(ids \ {n})

\* what _get_notifications() may return: [] when the call fails or nothing is shown
NotificationLists == {Ascending(ids) : ids \in SUBSET (1..MaxNotifications)}

Device(id, name, reachable) == [id |-> id, name |-> name, reachable |-> reachable]

\* what the daemon may report: no device, a reachable phone, an unreachable
\* phone, an unreachable phone and a reachable tablet
DeviceLists ==
    {<<>>,
     <<Device("d1", "Phone", TRUE)>>,
     <<Device("d1", "Phone", FALSE)>>,
     <<Device("d1", "Phone", FALSE), Device("d2", "Tablet", TRUE)>>}

\* what one run() reads over D-Bus
Environments ==
    {[devices |-> devices, notifications |-> list] :
        devices \in DeviceLists, list \in NotificationLists}

\* list.pop(index)
Pop(list, index) ==
    [k \in 1..(Len(list) - 1) |-> IF k <= index THEN list[k] ELSE list[k + 1]]

\* the device run() selects
select_device(setting, devices) ==
    IF setting # Missing THEN setting
    ELSE IF \E k \in DOMAIN devices : devices[k].reachable
         THEN Some(devices[CHOOSE k \in DOMAIN devices :
                              /\ devices[k].reachable
                              /\ \A j \in 1..(k - 1) : ~devices[j].reachable].id)
    ELSE IF devices # <<>> THEN Some(devices[1].id)
    ELSE Missing

\* _get_device_name(): the friendly name, or the id when the call fails
get_device_name(id, devices) ==
    IF \E k \in DOMAIN devices : devices[k].id = id
    THEN devices[CHOOSE k \in DOMAIN devices : devices[k].id = id].name
    ELSE id

normalize_stale(index, length) == index

\* run() brings the index into the range of the list it fetched
normalize(index, length) == PyMod(index, length)

\* run() up to the assignment of self._notifications
fetched(setting, env) ==
    LET dev == select_device(setting, env.devices) IN
    IF dev = Missing
    THEN [returns |-> TRUE,
          current_device_id |-> Missing,
          device_name |-> device_name,
          notifications |-> kde_notifications,
          output |-> [full_text |-> "KDE Connect: No devices",
                      color |-> color_no_notifications]]
    ELSE [returns |-> FALSE,
          current_device_id |-> dev,
          device_name |-> get_device_name(dev[1], env.devices),
          notifications |-> env.notifications,
          output |-> kde_output]

\* run() from the test of self._notifications to the output
shown_notification(dev, name, list, index) ==
    IF list = <<>>
    THEN [index |-> index,
          output |-> [full_text |->
                         [format |-> format_no_notifications,
                          args |-> [device_name |-> name, device_id |-> dev[1],
                                    notification_count |-> 0]],
                      color |-> color_no_notifications]]
    ELSE LET i == normalize(index, Len(list)) IN
         IF i >= Len(list)
         THEN [index |-> i,
               output |-> [full_text |-> "KDE Connect: Error - list index out of range",
                           color |-> "#FF0000"]]
         ELSE [index |-> i,
               output |-> [full_text |->
                              [format |-> kde_format,
                               args |-> [notification_count |-> Len(list),
                                         app_name |-> list[i + 1].app_name,
                                         title |-> list[i + 1].title,
                                         body |-> list[i + 1].body,
                                         device_name |-> name,
                                         device_id |-> dev[1]]],
                           color |-> kde_color]]

next_notification_clamped(list, index) ==
    IF list # <<>> THEN Min(index + 1, Len(list) - 1) ELSE index

\* the index next_notification() leaves
next_notification(list, index) ==
    IF list # <<>> THEN PyMod(index + 1, Len(list)) ELSE index

\* the index prev_notification() leaves
prev_notification(list, index) ==
    IF list # <<>> THEN PyMod(index - 1, Len(list)) ELSE index

popped_last(list, index) == SubSeq(list, 1, Len(list) - 1)

\* the list dismiss_notification() leaves when it dismisses
popped(list, index) == Pop(list, index)

\* dismiss_notification() from the dismiss() call on, current being dismissable
dismiss_current(dev, list, index, cur) ==
    IF index >= Len(list)
    THEN [dismissed |-> <<[device_id |-> dev, id |-> cur.id]>>,
          notifications |-> list, index |-> index, raised |-> "IndexError"]
    ELSE LET rest == popped(list, index) IN
         [dismissed |-> <<[device_id |-> dev, id |-> cur.id]>>,
          notifications |-> rest,
          index |-> IF rest # <<>> THEN PyMod(index, Len(rest)) ELSE 0,
          raised |-> "none"]

\* dismiss_notification()
dismiss_notification(dev, list, index) ==
    IF list # <<>> /\ dev # Missing
    THEN IF index >= Len(list)
         THEN [dismissed |-> <<>>, notifications |-> list, index |-> index,
               raised |-> "IndexError"]
         ELSE IF list[index + 1].dismissable
         THEN dismiss_current(dev, list, index, list[index + 1])
         ELSE [dismissed |-> <<>>, notifications |-> list, index |-> index,
               raised |-> "none"]
    ELSE [dismissed |-> <<>>, notifications |-> list, index |-> index, raised |-> "none"]

\* the dismiss() calls of dismiss_all()
dismiss_calls(dev, list) ==
    LET kept == SelectSeq(list, LAMBDA n : n.dismissable) IN
    [k \in DOMAIN kept |-> [device_id |-> dev, id |-> kept[k].id]]

\* the handler, and the device, index and list it found
Handled(op) ==
    [op |-> op, device |-> current_device_id, index |-> notification_index,
     notifications |-> kde_notifications]

Serial == pc = [run |-> "idle", click |-> "idle"]

\* run(), uninterrupted
KdeRun(env) ==
    LET f == fetched(device_id, env)
        r == shown_notification(f.current_device_id, f.device_name, f.notifications,
                                notification_index)
    IN  /\ Serial
        /\ current_device_id' = f.current_device_id
        /\ device_name' = f.device_name
        /\ kde_notifications' = f.notifications
        /\ notification_index' = IF f.returns THEN notification_index ELSE r.index
        /\ kde_output' = IF f.returns THEN f.output ELSE r.output
        /\ dismissed' = <<>>
        /\ kde_raised' = "none"
        /\ kde_op' = Handled("run")
        /\ UNCHANGED <<device_id, pc, current, read_at>>
        /\ UNCHANGED buds_vars
        /\ UNCHANGED hassio_vars
        /\ UNCHANGED multi_vars

\* a callback that moves the index, uninterrupted
KdeMoved(op, index) ==
    /\ Serial
    /\ notification_index' = index
    /\ dismissed' = <<>>
    /\ kde_raised' = "none"
    /\ kde_op' = Handled(op)
    /\ UNCHANGED <<device_id, current_device_id, device_name, kde_notifications,
                   kde_output, pc, current, read_at>>
    /\ UNCHANGED buds_vars
    /\ UNCHANGED hassio_vars
    /\ UNCHANGED multi_vars

KdeNext == KdeMoved("next_notification",
                    next_notification(kde_notifications, notification_index))

KdePrev == KdeMoved("prev_notification",
                    prev_notification(kde_notifications, notification_index))

\* dismiss_notification(), uninterrupted
KdeDismiss ==
    LET r == dismiss_notification(current_device_id, kde_notifications,
                                  notification_index)
    IN  /\ Serial
        /\ kde_notifications' = r.notifications
        /\ notification_index' = r.index
        /\ dismissed' = r.dismissed
        /\ kde_raised' = r.raised
        /\ kde_op' = Handled("dismiss_notification")
        /\ UNCHANGED <<device_id, current_device_id, device_name, kde_output, pc,
                       current, read_at>>
        /\ UNCHANGED buds_vars
        /\ UNCHANGED hassio_vars
        /\ UNCHANGED multi_vars

\* dismiss_all(), uninterrupted
KdeDismissAll ==
    /\ Serial
    /\ IF current_device_id # Missing
       THEN /\ dismissed' = dismiss_calls(current_device_id, kde_notifications)
            /\ kde_notifications' = <<>>
            /\ notification_index' = 0
       ELSE /\ dismissed' = <<>>
            /\ UNCHANGED <<kde_notifications, notification_index>>
    /\ kde_raised' = "none"
    /\ kde_op' = Handled("dismiss_all")
    /\ UNCHANGED <<device_id, current_device_id, device_name, kde_output, pc, current,
                   read_at>>
    /\ UNCHANGED buds_vars
    /\ UNCHANGED hassio_vars
    /\ UNCHANGED multi_vars

\* a KDEConnect instance after construction
KdeConstructed ==
    /\ device_id \in {Missing, Some("d1")}
    /\ current_device_id = Missing
    /\ device_name = ""
    /\ notification_index = 0
    /\ kde_notifications = <<>>
    /\ kde_output = None
    /\ dismissed = <<>>
    /\ kde_raised = "none"
    /\ kde_op = [op |-> "init", device |-> Missing, index |-> 0, notifications |-> <<>>]
    /\ pc = [run |-> "idle", click |-> "idle"]
    /\ current = None
    /\ read_at = None

\* a KDEConnect instance with the default device_id, never polled
KdeIdle == KdeConstructed /\ device_id = Missing

\* the Hassio module after import, with the instances registered
Registered(registered) ==
    /\ hassio_cache = EmptyDict
    /\ hassio_cache_time = EmptyDict
    /\ now = Epoch
    /\ instances = registered
    /\ hassio_output = [i \in DOMAIN registered |-> None]

\* a HassioMulti instance after construction
MultiConstructed ==
    /\ hide_state \in {Missing, Some("off")}
    /\ entity_index = 0
    /\ entities_data = <<>>
    /\ multi_states = None
    /\ multi_output = None
    /\ cdict = None
    /\ posted = <<>>
    /\ multi_op = "init"

\* a HassioMulti instance with the default hide_state, never polled
MultiIdle == MultiConstructed /\ hide_state = Missing

\* the module after construction and init(), before the first poll
Constructed ==
    /\ Registered(<<>>)
    /\ MultiIdle
    /\ KdeIdle
    /\ use_battery_drift_threshold \in BOOLEAN
    /\ battery_drift_threshold \in 0..MaxThreshold
    /\ enable_notifications \in BOOLEAN
    /\ hide_no_device \in BOOLEAN
    /\ dynamic_color \in BOOLEAN
    /\ colors = init(dynamic_color)
    /\ status = None
    /\ output = None
    /\ returned = None
    /\ fdict = None
    /\ combined_level = None
    /\ notifications = <<>>
    /\ commands = <<>>
    /\ raised = "none"
    /\ lastop = [op |-> "init", adjustment |-> None]
    /\ history = <<>>

\* the battery polls, with the default hide_no_device and dynamic_color
Init == Constructed /\ ~hide_no_device /\ dynamic_color

Poll == \E st \in Drift(status, BatteryPayloads, BatteryStatuses) :
            Run(st) /\ UNCHANGED history

Next == Poll

Spec == Init /\ [][Next]_vars

\* the click handlers, with the default hide_no_device and dynamic_color and
\* a drift threshold that the levels 0..MaxEqLevel exceed
InitEq == Constructed /\ ~hide_no_device /\ dynamic_color /\ battery_drift_threshold = 1

PollEq == \E st \in Drift(status, EqPayloads, EqStatuses) :
              Run(st) /\ UNCHANGED history

ClickEqualizer == \E adjustment \in Adjustments, st \in Drift(status, EqPayloads, EqStatuses) :
                      EqualizerSet(adjustment, st) /\ UNCHANGED history

NextEq == PollEq \/ ClickEqualizer

SpecEq == InitEq /\ [][NextEq]_vars

\* the payloads under the toggle handlers: ambient sound and noise control
\* on or off, the equalizer off or in an unrecognized mode
TogglePayloads ==
    [model : {"Buds2"}, batt_left : {0}, batt_right : {0},
     batt_case : {battery_limit},
     placement_left : {Some(PlacementWearing)},
     placement_right : {Some(PlacementWearing)},
     equalizer_type : {Some(0), Some(MaxEqualizerCode)},
     ambient_sound_enabled : BOOLEAN,
     noise_reduction : BOOLEAN, tab_lock_status : {Unlocked}]

ToggleStatuses == {Malformed, NoDevice} \cup {Connected(p) : p \in TogglePayloads}

PollToggle == \E st \in ToggleStatuses : Run(st) /\ UNCHANGED history

ClickAmb == \E st \in ToggleStatuses : ToggleAmb(st) /\ UNCHANGED history

ClickAnc == \E st \in ToggleStatuses : ToggleAnc(st) /\ UNCHANGED history

ClickEq == \E adjustment \in {Step(1), Member(0)}, st \in ToggleStatuses :
               EqualizerSet(adjustment, st) /\ UNCHANGED history

NextToggle == PollToggle \/ ClickAmb \/ ClickAnc \/ ClickEq

SpecToggle == InitEq /\ [][NextToggle]_vars

\* the payloads of a logged sequence of polls: small levels, each bud worn
\* or in the case
SweepPayloads ==
    [model : {"Buds2"}, batt_left : 0..MaxSweepLevel, batt_right : 0..MaxSweepLevel,
     batt_case : {battery_limit},
     placement_left : {Some(PlacementWearing), Some(PlacementCase)},
     placement_right : {Some(PlacementWearing), Some(PlacementCase)},
     equalizer_type : {Some(0)}, ambient_sound_enabled : {FALSE},
     noise_reduction : {FALSE}, tab_lock_status : {Unlocked}]

\* The status outputs of consecutive polls of a sequence: the buds stay where
\* they are, and one level moves by at most one.
SweepDrift(prev) ==
    IF prev = None
    THEN {Connected(p) : p \in SweepPayloads}
    ELSE {Connected(p) : p \in {q \in
            {[prev.payload EXCEPT !.batt_left = v] :
                v \in {prev.payload.batt_left - 1, prev.payload.batt_left,
                       prev.payload.batt_left + 1}}
            \cup {[prev.payload EXCEPT !.batt_right = v] :
                v \in {prev.payload.batt_right - 1, prev.payload.batt_right + 1}}
            : q \in SweepPayloads}}

\* a sequence of polls, each logged with the notifications it displayed
InitSweep == Constructed /\ ~hide_no_device /\ dynamic_color /\ battery_drift_threshold <= 1

SweepPoll ==
    /\ Len(history) < MaxPolls
    /\ \E st \in SweepDrift(status) :
          /\ Run(st)
          /\ history' = Append(history, [status |-> st, notified |-> notifications'])

NextSweep == SweepPoll

SpecSweep == InitSweep /\ [][NextSweep]_vars

\* the payloads of the display polls: both buds at every level up to
\* battery_limit, every placement code from 0 and a missing one
DisplayPlacements == {Missing} \cup {Some(c) : c \in 0..MaxPlacementCode}

DisplayPayload(level, placement_left, placement_right) ==
    [model |-> "Buds2", batt_left |-> level, batt_right |-> level,
     batt_case |-> battery_limit,
     placement_left |-> placement_left, placement_right |-> placement_right,
     equalizer_type |-> Some(0), ambient_sound_enabled |-> FALSE,
     noise_reduction |-> FALSE, tab_lock_status |-> Unlocked]

DisplayStatuses ==
    {Malformed, NoDevice}
    \cup {Connected(DisplayPayload(v, pl, pr)) :
            v \in 0..battery_limit, pl \in DisplayPlacements, pr \in DisplayPlacements}

\* The status outputs of consecutive display polls: the level moves by at most
\* one, or one bud is moved, or the device connects or disconnects.
DisplayDrift(prev) ==
    IF prev = None \/ prev.payload = None
    THEN DisplayStatuses
    ELSE {Malformed, NoDevice}
         \cup {Connected([prev.payload EXCEPT !.batt_left = v, !.batt_right = v]) :
                 v \in {w \in {prev.payload.batt_left - 1, prev.payload.batt_left,
                               prev.payload.batt_left + 1} : w \in 0..battery_limit}}
         \cup {Connected([prev.payload EXCEPT !.placement_left = v]) :
                 v \in DisplayPlacements}
         \cup {Connected([prev.payload EXCEPT !.placement_right = v]) :
                 v \in DisplayPlacements}

\* the display polls, under every hide_no_device and dynamic_color setting and
\* the default battery settings
InitDisplay ==
    /\ Constructed
    /\ use_battery_drift_threshold /\ battery_drift_threshold = 3
    /\ enable_notifications

DisplayPoll == \E st \in DisplayDrift(status) : Run(st) /\ UNCHANGED history

NextDisplay == DisplayPoll

SpecDisplay == InitDisplay /\ [][NextDisplay]_vars

\* the settings of a Hassio instance
Instance(hassio_url, entity_id, use_cache, cache_timeout, interval) ==
    [hassio_url |-> hassio_url, hassio_token |-> Token, entity_id |-> entity_id,
     use_cache |-> use_cache, cache_timeout |-> cache_timeout, interval |-> interval]

\* Two instances: the first with every use_cache, cache_timeout and interval
\* setting, the second caching with the same interval and no cache_timeout,
\* on the same server or on another one.
Registrations ==
    {<<Instance(ServerA, "light.a", use_cache, cache_timeout, interval),
       Instance(hassio_url, "switch.b", TRUE, Missing, interval)>> :
        use_cache \in BOOLEAN,
        cache_timeout \in {Missing} \cup {Some(t) : t \in 0..MaxTimeout},
        interval \in 1..MaxInterval,
        hassio_url \in {ServerA, ServerB}}

\* a Buds module with the default settings, never polled
Idle ==
    /\ use_battery_drift_threshold = TRUE /\ battery_drift_threshold = 3
    /\ enable_notifications = TRUE /\ hide_no_device = FALSE /\ dynamic_color = TRUE
    /\ colors = init(dynamic_color)
    /\ status = None /\ output = None /\ returned = None /\ fdict = None
    /\ combined_level = None
    /\ notifications = <<>> /\ commands = <<>> /\ raised = "none"
    /\ lastop = [op |-> "init", adjustment |-> None]
    /\ history = <<>>

\* the serial run() calls of the Hassio instances, while time passes
InitHassio ==
    /\ Idle /\ MultiIdle /\ KdeIdle
    /\ \E registered \in Registrations : Registered(registered)

HassioPoll == Len(history) < MaxRuns /\ \E i \in DOMAIN instances : HassioRun(i)

HassioWait == now < Epoch + Max(MaxTimeout, MaxInterval) + 1 /\ Tick

NextHassio == HassioPoll \/ HassioWait

SpecHassio == InitHassio /\ [][NextHassio]_vars

\* Two instances under run() and refresh(): the first caching or not, with a
\* cache_timeout or none, the second caching on the same server or on
\* another one; all timeouts outlast the time that passes.
RefreshRegistrations ==
    {<<Instance(ServerA, "light.a", use_cache, cache_timeout, MaxInterval),
       Instance(hassio_url, "switch.b", TRUE, Missing, MaxInterval)>> :
        use_cache \in BOOLEAN,
        cache_timeout \in {Missing, Some(MaxTimeout)},
        hassio_url \in {ServerA, ServerB}}

InitRefresh ==
    /\ Idle /\ MultiIdle /\ KdeIdle
    /\ \E registered \in RefreshRegistrations : Registered(registered)

RefreshPoll == Len(history) < MaxRuns /\ \E i \in DOMAIN instances : HassioRun(i)

RefreshClick == Len(history) < MaxRuns /\ \E i \in DOMAIN instances : HassioRefresh(i)

RefreshWait == now < Epoch + 1 /\ Tick

NextRefresh == RefreshPoll \/ RefreshClick \/ RefreshWait

SpecRefresh == InitRefresh /\ [][NextRefresh]_vars

\* The /api/states responses: each tracked entity is absent, on or off; the
\* server lists an untracked entity first and the tracked ones in reverse.
Reported(condition, i, friendly_name) ==
    IF condition[i] = "absent" THEN <<>>
    ELSE <<Entity(entity_ids[i], condition[i], friendly_name)>>

AllStates ==
    {<<Entity(EntityId("light", "z"), "on", "Z")>>
        \o Reported(condition, 3, "C") \o Reported(condition, 2, "B")
        \o Reported(condition, 1, "A") :
     condition \in [1..3 -> {"absent", "on", "off"}]}

\* the handlers of a HassioMulti instance, the entities changing between polls
InitMulti == Idle /\ Registered(<<>>) /\ MultiConstructed /\ KdeIdle

MultiPoll == \E all_states \in AllStates : MultiRun(all_states) /\ UNCHANGED history

MultiClickNext == MultiNext /\ UNCHANGED history

MultiClickPrev == MultiPrev /\ UNCHANGED history

MultiClickToggle == MultiToggle /\ UNCHANGED history

NextMulti == MultiPoll \/ MultiClickNext \/ MultiClickPrev \/ MultiClickToggle

SpecMulti == InitMulti /\ [][NextMulti]_vars

\* a poll of a HassioMulti instance followed by a logged sequence of
\* next_entity and prev_entity calls
EntityPoll ==
    /\ multi_op = "init"
    /\ \E all_states \in AllStates : MultiRun(all_states)
    /\ UNCHANGED history

EntityStep ==
    /\ multi_op # "init"
    /\ Len(history) < MaxClicks
    /\ MultiNext \/ MultiPrev
    /\ history' = Append(history, [op |-> multi_op', before |-> entity_index,
                                   after |-> entity_index',
                                   count |-> Len(visible(entities_data)),
                                   current |-> get_current_entity_id'])

NextEntity == EntityPoll \/ EntityStep

SpecEntity == InitMulti /\ [][NextEntity]_vars

\* the status output of a connected device whose equalizer is in mode
CycleStatus(mode) ==
    Connected([model |-> "Buds2", batt_left |-> 0, batt_right |-> 0,
               batt_case |-> battery_limit,
               placement_left |-> Some(PlacementWearing),
               placement_right |-> Some(PlacementWearing),
               equalizer_type |-> Some(mode), ambient_sound_enabled |-> FALSE,
               noise_reduction |-> FALSE, tab_lock_status |-> Unlocked])

\* the mode the device is in after the handler that ran cmds, when it was in
\* mode before: the one a `set equalizer` command names
Adopted(mode, cmds) ==
    IF Len(cmds) < 2 THEN mode
    ELSE CHOOSE v \in BudsEqualizerValues :
            cmds[2] = earbuds_binary \o " set equalizer " \o BudsEqualizerName(v)

\* a sequence of scroll steps on a device that starts in any mode and adopts
\* each commanded mode before the next step
DeviceMode ==
    IF history = <<>> THEN BudsEqualizerValues ELSE {history[Len(history)].adopted}

ScrollStep ==
    /\ Len(history) < MaxClicks
    /\ \E d \in {0 - 1, 1}, mode \in DeviceMode :
          /\ EqualizerSet(Step(d), CycleStatus(mode))
          /\ history' = Append(history, [adjustment |-> d, current |-> mode,
                                         adopted |-> Adopted(mode, commands')])

NextCycle == ScrollStep

SpecCycle == InitEq /\ [][NextCycle]_vars

\* A KDEConnect instance under its poll and its callbacks, one at a time, the
\* devices and the notifications of the phone changing between polls.
InitKde == Idle /\ MultiIdle /\ Registered(<<>>) /\ KdeConstructed

KdePoll == \E env \in Environments : KdeRun(env) /\ UNCHANGED history

KdeClickNext == KdeNext /\ UNCHANGED history

KdeClickPrev == KdePrev /\ UNCHANGED history

KdeClickDismiss == KdeDismiss /\ UNCHANGED history

KdeClickDismissAll == KdeDismissAll /\ UNCHANGED history

NextKde ==
    KdePoll \/ KdeClickNext \/ KdeClickPrev \/ KdeClickDismiss \/ KdeClickDismissAll

SpecKde == InitKde /\ [][NextKde]_vars

\* The poll thread and the click thread on one instance.  run() is two steps:
\* up to the assignment of self._notifications (kdeconnect.py:175), and from
\* there to the output.  dismiss_notification() is three: the test of line 233,
\* the subscript of line 234, and the dismissal of lines 235-241.
RaceFetch ==
    \E env \in Environments :
        LET f == fetched(device_id, env) IN
        /\ pc.run = "idle"
        /\ current_device_id' = f.current_device_id
        /\ device_name' = f.device_name
        /\ kde_notifications' = f.notifications
        /\ kde_output' = f.output
        /\ pc' = [pc EXCEPT !.run = IF f.returns THEN "idle" ELSE "fetched"]
        /\ UNCHANGED <<device_id, notification_index, dismissed, kde_raised, kde_op,
                       current, read_at, history>>
        /\ UNCHANGED buds_vars
        /\ UNCHANGED hassio_vars
        /\ UNCHANGED multi_vars

RaceShow ==
    LET r == shown_notification(current_device_id, device_name, kde_notifications,
                                notification_index)
    IN  /\ pc.run = "fetched"
        /\ notification_index' = r.index
        /\ kde_output' = r.output
        /\ pc' = [pc EXCEPT !.run = "idle"]
        /\ UNCHANGED <<device_id, current_device_id, device_name, kde_notifications,
                       dismissed, kde_raised, kde_op, current, read_at, history>>
        /\ UNCHANGED buds_vars
        /\ UNCHANGED hassio_vars
        /\ UNCHANGED multi_vars

RaceNext == KdeNext /\ UNCHANGED history

RaceCheck ==
    /\ pc.click = "idle"
    /\ pc' = [pc EXCEPT !.click = IF kde_notifications # <<>> /\ current_device_id # Missing
                                  THEN "checked" ELSE "idle"]
    /\ kde_op' = Handled("dismiss_notification")
    /\ dismissed' = <<>>
    /\ kde_raised' = "none"
    /\ current' = None
    /\ read_at' = None
    /\ UNCHANGED <<device_id, current_device_id, device_name, kde_notifications,
                   notification_index, kde_output, history>>
    /\ UNCHANGED buds_vars
    /\ UNCHANGED hassio_vars
    /\ UNCHANGED multi_vars

RaceRead ==
    /\ pc.click = "checked"
    /\ read_at' = [index |-> notification_index, length |-> Len(kde_notifications)]
    /\ IF notification_index >= Len(kde_notifications)
       THEN /\ kde_raised' = "IndexError"
            /\ current' = None
            /\ pc' = [pc EXCEPT !.click = "idle"]
       ELSE /\ kde_raised' = "none"
            /\ current' = kde_notifications[notification_index + 1]
            /\ pc' = [pc EXCEPT !.click = IF current'.dismissable THEN "read" ELSE "idle"]
    /\ UNCHANGED <<device_id, current_device_id, device_name, kde_notifications,
                   notification_index, kde_output, dismissed, kde_op, history>>
    /\ UNCHANGED buds_vars
    /\ UNCHANGED hassio_vars
    /\ UNCHANGED multi_vars

RacePop ==
    LET r == dismiss_current(current_device_id, kde_notifications, notification_index,
                             current)
    IN  /\ pc.click = "read"
        /\ dismissed' = r.dismissed
        /\ kde_notifications' = r.notifications
        /\ notification_index' = r.index
        /\ kde_raised' = r.raised
        /\ pc' = [pc EXCEPT !.click = "idle"]
        /\ UNCHANGED <<device_id, current_device_id, device_name, kde_output, kde_op,
                       current, read_at, history>>
        /\ UNCHANGED buds_vars
        /\ UNCHANGED hassio_vars
        /\ UNCHANGED multi_vars

NextRace == RaceFetch \/ RaceShow \/ RaceNext \/ RaceCheck \/ RaceRead \/ RacePop

SpecRace == InitKde /\ [][NextRace]_vars


(***************************************************************************)
(* The snapshot the last handler read, for the properties below.           *)
(***************************************************************************)
\* the last handler read a payload whose equalizer_type is a member or missing
Snapshot ==
    /\ status # None
    /\ status.json
    /\ status.payload # None
    /\ get(status.payload.equalizer_type, 0) \in 0..5

Left == status.payload.batt_left
Right == status.payload.batt_right
LeftCased == status.payload.placement_left = <<3>>
RightCased == status.payload.placement_right = <<3>>
LevelDrift == IF Left >= Right THEN Left - Right ELSE Right - Left
BothLevels == IntStr(Left) \o " " \o IntStr(Right)

Notified(body) ==
    \E i \in 1..Len(notifications) :
        notifications[i] = [title |-> "Buds", body |-> body, icon |-> "battery",
                            urgency |-> 1]
DriftNotified == Notified("Battery drift occurred L" \o BothLevels \o "R")
ReachedNotified == Notified("Battery level reached L" \o BothLevels \o "R")

InBand ==
    /\ battery_drift_threshold < LevelDrift
    /\ LevelDrift <= 2 * battery_drift_threshold

\* the last handler was equalizer_set with a relative step / an absolute target
Stepped == lastop.op = "equalizer_set" /\ lastop.adjustment.kind = "int"
Targeted == lastop.op = "equalizer_set" /\ lastop.adjustment.kind = "BudsEqualizer"
CurrentEq == get(status.payload.equalizer_type, 0)
SetEqualizerCommand(name) == "earbuds set equalizer " \o name

(***************************************************************************)
(* Properties of the battery reconciliation.                               *)
(***************************************************************************)
\* C1: the combined level of a poll, which is the level the gradient is looked
\* up with, is min(left, right) when both readings are > 0 and max(left, right)
\* when either is 0, whatever the placements, threshold and notification
\* settings.
C1_CombinedLevel ==
    Snapshot =>
        /\ (Left > 0 /\ Right > 0) =>
              combined_level = (IF Left <= Right THEN Left ELSE Right)
        /\ (Left = 0 \/ Right = 0) =>
              combined_level = (IF Left >= Right THEN Left ELSE Right)
        /\ dynamic_color => output.color = colors[combined_level]

C1_Witness ==
    /\ Snapshot
    /\ Left = 0 /\ Right > 0
    /\ combined_level = Right
    /\ output.color = colors[Right]

C3_DriftNotificationUngated ==
    Snapshot =>
        (DriftNotified <=> (~LeftCased /\ ~RightCased /\ InBand /\ enable_notifications))

\* the notifications of a sweep of the drift from threshold - 1 to
\* 2 * threshold + 1, one poll each, with neither unit in the case
SweepNotifications ==
    {d \in (battery_drift_threshold - 1)..(2 * battery_drift_threshold + 1) :
        battery_display_status(1 + d, 1, <<1>>, <<1>>).notified # <<>>}

\* C3, amended: the drift notification is displayed by a poll exactly when
\* use_battery_drift_threshold is true, neither unit is in the case,
\* threshold < drift <= 2 * threshold and enable_notifications is true; with
\* both settings true the sweep of the drift displays exactly `threshold`
\* notifications.
C3_DriftNotification ==
    /\ Snapshot =>
        (DriftNotified <=> /\ use_battery_drift_threshold
                           /\ ~LeftCased /\ ~RightCased
                           /\ InBand
                           /\ enable_notifications)
    /\ (use_battery_drift_threshold /\ enable_notifications) =>
        Cardinality(SweepNotifications) = battery_drift_threshold

C3_Witness ==
    /\ Snapshot
    /\ battery_drift_threshold > 0
    /\ LevelDrift = 2 * battery_drift_threshold
    /\ DriftNotified
    /\ Cardinality(SweepNotifications) = battery_drift_threshold

\* C4: the convergence notification is displayed by a poll exactly when one
\* unit, and not both, is in the case, left = right and enable_notifications
\* is true.
C4_ReachedNotification ==
    Snapshot =>
        (ReachedNotified <=> /\ LeftCased # RightCased
                             /\ Left = Right
                             /\ enable_notifications)

C4_Witness ==
    /\ Snapshot
    /\ ~use_battery_drift_threshold
    /\ RightCased /\ ~LeftCased
    /\ Left = Right
    /\ ReachedNotified

\* C9: the case battery text is " <case_battery><battery_case_symbol>" when at
\* least one unit is in the case and empty when neither is, whether or not
\* the convergence notification is displayed or notifications are enabled.
C9_CaseText ==
    Snapshot =>
        fdict.battery_case =
            (IF LeftCased \/ RightCased
             THEN " " \o IntStr(status.payload.batt_case) \o "C"
             ELSE "")

C9_Witness ==
    /\ Snapshot
    /\ LeftCased /\ RightCased
    /\ ~enable_notifications
    /\ status.payload.batt_case = 100
    /\ fdict.battery_case = " 100C"
    /\ notifications = <<>>

C11_EqualShowsOne ==
    (Snapshot /\ Left = Right) => fdict.battery = IntStr(Left)

\* C27: a poll displays at most one notification: the drift notification
\* and the convergence notification are never both displayed for one
\* snapshot, for any levels, placements and threshold.
C27_AtMostOne ==
    lastop.op = "run" =>
        /\ Len(notifications) <= 1
        /\ Snapshot => ~(DriftNotified /\ ReachedNotified)

C27_Witness ==
    /\ lastop.op = "run" /\ Snapshot
    /\ Left = Right /\ LeftCased /\ ~RightCased
    /\ use_battery_drift_threshold /\ battery_drift_threshold = 0
    /\ ReachedNotified /\ ~DriftNotified
    /\ Len(notifications) = 1

\* the `set ...` commands of the click handlers
SetCommands ==
    {"earbuds set ambientsound 0", "earbuds set ambientsound 1",
     "earbuds set anc false", "earbuds set anc true"}
    \cup {SetEqualizerCommand(BudsEqualizerName(v)) : v \in 0..5}
SetsSent == {n \in 1..Len(commands) : commands[n] \in SetCommands}

\* C28: equalizer_set, toggle_amb and toggle_anc send a `set ...` command
\* only when the status poll they perform returns a payload: none when the
\* device is disconnected or the status output malformed, and never more
\* than one.
C28_SetOnlyOnPayload ==
    lastop.op \in {"equalizer_set", "toggle_amb", "toggle_anc"} =>
        /\ commands[1] = StatusCommand
        /\ SetsSent = (2..Len(commands))
        /\ Cardinality(SetsSent) <= 1
        /\ SetsSent # {} => (status.payload # None /\ returned = status.payload)
        /\ status.payload = None => (SetsSent = {} /\ returned = None)

C28_Witness ==
    /\ lastop.op = "toggle_amb"
    /\ status.payload # None /\ status.payload.ambient_sound_enabled
    /\ commands = <<StatusCommand, "earbuds set ambientsound 0">>
    /\ fdict.amb = " AMB"

(***************************************************************************)
(* Properties of a sequence of polls.                                      *)
(***************************************************************************)
\* the notifications logged for a poll of the sequence
LoggedBody(entry, kind) ==
    "Battery " \o kind \o " L" \o IntStr(entry.status.payload.batt_left) \o " "
        \o IntStr(entry.status.payload.batt_right) \o "R"
Logged(entry, kind) ==
    \E n \in 1..Len(entry.notified) : entry.notified[n].body = LoggedBody(entry, kind)
LoggedDrift(entry) == Logged(entry, "drift occurred")
LoggedReached(entry) == Logged(entry, "level reached")

\* what the snapshot of a logged poll alone calls for
EntryCased(entry) ==
    {side \in {"left", "right"} :
        IF side = "left" THEN entry.status.payload.placement_left = <<3>>
        ELSE entry.status.payload.placement_right = <<3>>}
EntryGap(entry) ==
    Abs(entry.status.payload.batt_left - entry.status.payload.batt_right)
DriftDue(entry) ==
    /\ use_battery_drift_threshold /\ enable_notifications
    /\ EntryCased(entry) = {}
    /\ battery_drift_threshold < EntryGap(entry)
    /\ EntryGap(entry) <= 2 * battery_drift_threshold
ReachedDue(entry) ==
    /\ enable_notifications
    /\ Cardinality(EntryCased(entry)) = 1
    /\ EntryGap(entry) = 0

\* C12: the notifications are level-triggered and stateless: each poll of a
\* sequence displays exactly the notifications its own snapshot calls for,
\* so two consecutive polls of the same snapshot display the same ones and no
\* earlier poll suppresses or causes a later notification.
C12_Stateless ==
    /\ \A i \in 1..Len(history) :
          /\ LoggedDrift(history[i]) <=> DriftDue(history[i])
          /\ LoggedReached(history[i]) <=> ReachedDue(history[i])
          /\ Len(history[i].notified) <= 1
    /\ \A i \in 1..(Len(history) - 1) :
          history[i + 1].status = history[i].status
              => history[i + 1].notified = history[i].notified

C12_Witness ==
    \E i \in 1..(Len(history) - 1) :
        /\ history[i + 1].status = history[i].status
        /\ LoggedDrift(history[i]) /\ LoggedDrift(history[i + 1])
        /\ history[i].status.payload.batt_left = 1
        /\ history[i].status.payload.batt_right = 3

\* the level of the cased bud and of the other bud in a logged poll with
\* exactly one bud in the case
CasedLevel(entry) ==
    IF EntryCased(entry) = {"left"} THEN entry.status.payload.batt_left
    ELSE entry.status.payload.batt_right
OtherLevel(entry) ==
    IF EntryCased(entry) = {"left"} THEN entry.status.payload.batt_right
    ELSE entry.status.payload.batt_left

\* the logged sequence is a sweep: one bud stays in the case, the other
\* bud's level is fixed, and the cased level rises by 1 per poll from below
\* the other level to above it
IsSweep ==
    /\ Len(history) >= 3
    /\ \A i \in 1..Len(history) :
          /\ Cardinality(EntryCased(history[i])) = 1
          /\ EntryCased(history[i]) = EntryCased(history[1])
          /\ OtherLevel(history[i]) = OtherLevel(history[1])
          /\ CasedLevel(history[i]) = CasedLevel(history[1]) + (i - 1)
    /\ CasedLevel(history[1]) < OtherLevel(history[1])
    /\ CasedLevel(history[Len(history)]) > OtherLevel(history[1])

ReachedPolls == {i \in 1..Len(history) : LoggedReached(history[i])}

\* C13, as claimed: over a sweep the convergence notification is displayed
\* exactly once, at the poll where left = right.
C13_SweepOnce ==
    IsSweep =>
        /\ Cardinality(ReachedPolls) = 1
        /\ \A i \in ReachedPolls : EntryGap(history[i]) = 0

\* C13, amended: over a sweep with enable_notifications true the convergence
\* notification is displayed exactly once, at the poll where left = right;
\* with enable_notifications false it is never displayed.
C13_SweepOnceEnabled ==
    IsSweep =>
        IF enable_notifications
        THEN /\ Cardinality(ReachedPolls) = 1
             /\ \A i \in ReachedPolls : EntryGap(history[i]) = 0
        ELSE ReachedPolls = {}

C13_Witness ==
    /\ IsSweep /\ enable_notifications
    /\ Len(history) = 4
    /\ EntryCased(history[1]) = {"right"}
    /\ OtherLevel(history[1]) = 2
    /\ ReachedPolls = {3}

\* C14: on a device that adopts each commanded mode, six consecutive +1
\* steps return to the mode they started from, and a +1 step followed by a
\* -1 step returns to the mode before the +1 step.
C14_StepCycle ==
    /\ \A i \in 1..(Len(history) - 5) :
          (\A k \in i..(i + 5) : history[k].adjustment = 1)
              => history[i + 5].adopted = history[i].current
    /\ \A i \in 1..(Len(history) - 1) :
          (history[i].adjustment = 1 /\ history[i + 1].adjustment = 0 - 1)
              => history[i + 1].adopted = history[i].current

C14_Witness ==
    /\ Len(history) = 6
    /\ \A k \in 1..6 : history[k].adjustment = 1
    /\ history[1].current = 3
    /\ history[3].adopted = 0
    /\ history[6].adopted = 3
    /\ commands = <<StatusCommand, "earbuds set equalizer dynamic">>

(***************************************************************************)
(* Properties of the display.                                              *)
(***************************************************************************)
PlacementText(placement) ==
    IF placement = <<1>> THEN "W"
    ELSE IF placement = <<2>> THEN "I"
    ELSE IF placement = <<3>> THEN "C"
    ELSE "?"

Polled == lastop.op = "run"
DisconnectedOutput == [full_text |-> "Disconnected", color |-> <<255, 255, 255>>]

\* C15: translate_placement is total: worn, idle and case map to the wearing,
\* idle and case symbols, and every other code, a missing one included, maps
\* to "?" without an error.
C15_PlacementTotal ==
    (Polled /\ status.json /\ status.payload # None) =>
        /\ raised = "none"
        /\ fdict.placement_left = PlacementText(status.payload.placement_left)
        /\ fdict.placement_right = PlacementText(status.payload.placement_right)

C15_Witness ==
    /\ Polled /\ Snapshot /\ raised = "none"
    /\ status.payload.placement_left = <<>>
    /\ status.payload.placement_right = <<0>>
    /\ Left = 50
    /\ output.full_text = "Buds2 L?50R?"

\* C16, as claimed: a malformed poll and a poll without payload give the same
\* degraded state: "Disconnected" in disconnected_color when hide_no_device
\* is false, no output when it is true, and run() returns no payload.
C16_SameDegraded ==
    (Polled /\ status.payload = None) =>
        /\ returned = None
        /\ output = IF hide_no_device THEN None ELSE DisconnectedOutput

\* C16, amended: a malformed poll leaves no output whatever hide_no_device
\* is; a poll without payload shows "Disconnected" in disconnected_color
\* when hide_no_device is false and no output when it is true; run() returns
\* no payload in both.
C16_Degraded ==
    /\ (Polled /\ ~status.json) => (returned = None /\ output = None)
    /\ (Polled /\ status.json /\ status.payload = None) =>
          /\ returned = None
          /\ output = IF hide_no_device THEN None ELSE DisconnectedOutput

C16_Witness ==
    /\ Polled /\ ~status.json
    /\ ~hide_no_device
    /\ output = None /\ returned = None

C18_ConnectedColor ==
    (Polled /\ Snapshot /\ ~dynamic_color) => output.color = <<0, 255, 0>>

C18_Witness ==
    /\ Polled /\ Snapshot /\ ~dynamic_color
    /\ combined_level = 0
    /\ output.color = <<0, 255, 0>>

(***************************************************************************)
(* Properties of the Hassio cache.                                         *)
(***************************************************************************)
\* the instance of a logged run, and the cache timeout configured for it:
\* cache_timeout, or interval when cache_timeout is unset
Runner(n) == instances[history[n].instance]
ConfiguredTimeout(n) ==
    IF Runner(n).cache_timeout = <<>> THEN Runner(n).interval
    ELSE Runner(n).cache_timeout[1]

\* the earlier runs that stored the states of the server of run n in the
\* cache, and the age of the cached entry at run n
Stored(n) ==
    {m \in 1..(n - 1) :
        /\ Runner(m).use_cache
        /\ Runner(m).hassio_url = Runner(n).hassio_url
        /\ Runner(m).hassio_token = Runner(n).hassio_token
        /\ history[m].requested # <<>>}
LastStored(n) == CHOOSE m \in Stored(n) : \A k \in Stored(n) : k <= m
CachedAge(n) == history[n].time - history[LastStored(n)].time
Requests == {n \in 1..Len(history) : history[n].requested # <<>>}

\* C19, as claimed: a run of a caching instance requests the API if and only
\* if no entry is cached for its key or the entry's age is >= the cache
\* timeout; so caching instances sharing a server within their timeouts
\* cause exactly one request.
C19_RequestIffStale ==
    /\ \A n \in 1..Len(history) :
          Runner(n).use_cache =>
              (n \in Requests <=> (Stored(n) = {} \/ CachedAge(n) >= ConfiguredTimeout(n)))
    /\ ( /\ history # <<>>
         /\ \A n \in 1..Len(history) :
               /\ Runner(n).use_cache
               /\ Runner(n).hassio_url = Runner(1).hassio_url
               /\ history[n].time - history[1].time < ConfiguredTimeout(n) )
        => Requests = {1}

\* C20, as claimed: a run of a caching instance with cache_timeout set to T,
\* T = 0 included, is never served cached data of age >= T; with
\* cache_timeout unset it is never served cached data of age >= interval.
C20_NeverOlderThanTimeout ==
    \A n \in 1..Len(history) :
        (Runner(n).use_cache /\ n \notin Requests) =>
            /\ Stored(n) # {}
            /\ CachedAge(n) < ConfiguredTimeout(n)
            /\ Runner(n).cache_timeout # <<>> => CachedAge(n) < Runner(n).cache_timeout[1]

\* C21: the run() of a refresh() always requests the API, and a later
\* handler of a caching instance with the same key that requests nothing is
\* served states stored at or after the refresh.
C21_RefreshIsFresh ==
    \A n \in 1..Len(history) :
        history[n].op = "refresh" =>
            /\ n \in Requests
            /\ \A m \in (n + 1)..Len(history) :
                  ( /\ Runner(m).use_cache
                    /\ Runner(m).hassio_url = Runner(n).hassio_url
                    /\ Runner(m).hassio_token = Runner(n).hassio_token
                    /\ m \notin Requests )
                  => \E k \in Stored(m) : k >= n

C21_Witness ==
    /\ Len(history) = 4
    /\ history[1].op = "run" /\ history[1].instance = 2 /\ 1 \in Requests
    /\ history[2].op = "run" /\ history[2].instance = 1 /\ 2 \notin Requests
    /\ history[3].op = "refresh" /\ history[3].instance = 1 /\ 3 \in Requests
    /\ history[3].time = history[1].time
    /\ history[4].op = "run" /\ history[4].instance = 2 /\ 4 \notin Requests
    /\ hassio_output[2].full_text = "Switch B: off"

(***************************************************************************)
(* Properties of HassioMulti.                                              *)
(***************************************************************************)
\* C22: the entity_id posted by toggle() is the entity shown in the most
\* recent output: toggle() posts for an entity if and only if the last run()
\* displayed one, and then for that one.
C22_ToggleShown ==
    multi_op = "toggle" =>
        IF cdict = None THEN posted = <<>>
        ELSE /\ Len(posted) = 1
             /\ posted[1].json.entity_id = cdict.entity_id

\* the tracked entities the last response reports with a state other than
\* hide_state
VisibleIds ==
    {i \in 1..Len(entity_ids) :
        \E n \in 1..Len(multi_states) :
            /\ multi_states[n].entity_id = entity_ids[i]
            /\ hide_state # <<multi_states[n].state>>}

\* C24: after every run() that finds a visible entity, whatever handlers ran
\* before and however the entities changed, 1 <= entity_index <=
\* entity_count, entity_count is the number of configured entities that exist
\* with a state other than hide_state, and the entity displayed is not hidden.
C24_IndexInCount ==
    (multi_op = "run" /\ VisibleIds # {}) =>
        /\ cdict # None
        /\ 1 <= cdict.entity_index /\ cdict.entity_index <= cdict.entity_count
        /\ cdict.entity_index = entity_index + 1
        /\ cdict.entity_count = Cardinality(VisibleIds)
        /\ hide_state # <<cdict.state>>
        /\ \E i \in VisibleIds : cdict.entity_id = entity_ids[i]

C24_Witness ==
    /\ multi_op = "run" /\ hide_state = <<"off">>
    /\ Cardinality(VisibleIds) = 1
    /\ Len(entities_data) = 3
    /\ cdict # None /\ cdict.entity_index = 1 /\ cdict.entity_count = 1
    /\ cdict.entity_id = "sensor.c"
    /\ multi_output = [full_text |-> "C: on", color |-> "#00FF00"]

\* C23: next_entity() and prev_entity() cycle over the visible entities with
\* wraparound: next from the last selects the first, prev from the first
\* selects the last, next then prev is the identity, and n next calls over n
\* visible entities return to the entity they started from.
C23_EntityCycle ==
    /\ \A k \in 1..Len(history) :
          IF history[k].count = 0
          THEN history[k].after = history[k].before /\ history[k].current = <<>>
          ELSE /\ history[k].before \in 0..(history[k].count - 1)
               /\ history[k].op = "next_entity" =>
                     history[k].after = IF history[k].before = history[k].count - 1
                                        THEN 0 ELSE history[k].before + 1
               /\ history[k].op = "prev_entity" =>
                     history[k].after = IF history[k].before = 0
                                        THEN history[k].count - 1
                                        ELSE history[k].before - 1
               /\ history[k].current
                     = <<visible(entities_data)[history[k].after + 1].entity_id>>
    /\ \A k \in 1..(Len(history) - 1) :
          (history[k].op = "next_entity" /\ history[k + 1].op = "prev_entity")
              => history[k + 1].after = history[k].before
    /\ \A k \in 1..Len(history) :
          ( /\ history[k].count > 0
            /\ k + history[k].count - 1 <= Len(history)
            /\ \A j \in k..(k + history[k].count - 1) : history[j].op = "next_entity" )
          => history[k + history[k].count - 1].after = history[k].before

C23_Witness ==
    /\ Len(history) = 4 /\ hide_state = <<"off">>
    /\ \A k \in 1..3 : history[k].op = "next_entity" /\ history[k].count = 2
    /\ history[1].before = 0 /\ history[2].after = 0 /\ history[3].after = 1
    /\ history[4].op = "prev_entity" /\ history[4].after = 0
    /\ history[4].current = <<"light.a">>
    /\ Len(entities_data) = 3

(***************************************************************************)
(* Properties of the equalizer click handler.                              *)
(***************************************************************************)
\* C5: equalizer_set with a step of -1 or +1 commands the mode of index
\* (current + step) mod 6, an index in 0..5: -1 from off commands treble and
\* +1 from treble commands off.
C5_StepWraps ==
    (Snapshot /\ Stepped) =>
        LET index == (CurrentEq + lastop.adjustment.value) % 6
        IN  /\ index \in 0..5
            /\ raised = "none"
            /\ commands = <<StatusCommand, SetEqualizerCommand(BudsEqualizerName(index))>>
            /\ (CurrentEq = 0 /\ lastop.adjustment.value = 0 - 1) =>
                  commands[2] = "earbuds set equalizer treble"
            /\ (CurrentEq = 5 /\ lastop.adjustment.value = 1) =>
                  commands[2] = "earbuds set equalizer off"

C5_Witness ==
    /\ Snapshot /\ Stepped
    /\ status.payload.equalizer_type = <<0>>
    /\ lastop.adjustment.value = 0 - 1
    /\ commands = <<StatusCommand, "earbuds set equalizer treble">>

\* C6: equalizer_set with an absolute target commands exactly that mode, by
\* its name, from every current mode.
C6_TargetSet ==
    (Snapshot /\ Targeted) =>
        /\ raised = "none"
        /\ commands = <<StatusCommand,
                        SetEqualizerCommand(BudsEqualizerName(lastop.adjustment.value))>>

C6_Witness ==
    /\ Snapshot /\ Targeted
    /\ status.payload.equalizer_type = <<5>>
    /\ lastop.adjustment.value = 3
    /\ commands = <<StatusCommand, "earbuds set equalizer dynamic">>

\* C7: a step requested while the device reports a current mode that is none
\* of the six members treats the current mode as index 0 (+1 commands bass,
\* -1 commands treble) and raises no error.
C7_UnrecognizedAsOff ==
    (/\ Stepped
     /\ status.json /\ status.payload # None
     /\ status.payload.equalizer_type # <<>>
     /\ status.payload.equalizer_type[1] \notin 0..5) =>
        /\ raised = "none"
        /\ commands = <<StatusCommand,
                        IF lastop.adjustment.value = 1
                        THEN "earbuds set equalizer bass"
                        ELSE "earbuds set equalizer treble">>

\* C8, as claimed: equalizer_set displays no battery notification and leaves
\* the display output unchanged, for every device snapshot.
C8_OutOfBand ==
    [][lastop'.op = "equalizer_set" => (notifications' = <<>> /\ output' = output)]_vars

\* C8, amended: equalizer_set polls the device itself and runs the poll's
\* pipeline on the snapshot it reads: it displays the drift and convergence
\* notifications exactly when a poll of that snapshot does and sets the
\* display output from that snapshot; the command it sends depends on the
\* snapshot's equalizer mode and the adjustment alone.
C8_ClickPolls ==
    (Snapshot /\ lastop.op = "equalizer_set") =>
        /\ DriftNotified <=> /\ use_battery_drift_threshold
                             /\ ~LeftCased /\ ~RightCased
                             /\ InBand
                             /\ enable_notifications
        /\ ReachedNotified <=> /\ LeftCased # RightCased
                               /\ Left = Right
                               /\ enable_notifications
        /\ output = [full_text |-> format(fdict), color |-> colors[combined_level]]
        /\ fdict.left_battery = Left /\ fdict.right_battery = Right
        /\ commands[2] = SetEqualizerCommand(BudsEqualizerName(
               IF lastop.adjustment.kind = "int"
               THEN (CurrentEq + lastop.adjustment.value) % 6
               ELSE lastop.adjustment.value))

C8_Witness ==
    /\ Snapshot /\ lastop.op = "equalizer_set"
    /\ DriftNotified
    /\ Len(commands) = 2

(***************************************************************************)
(* KDEConnect: the notification index and the dismissal.                   *)
(***************************************************************************)
\* C25: next_notification() moves the index one up and from the last
\* notification to 0, prev_notification() one down and from 0 to the last
\* notification; on an empty list both leave the index as it was.
C25_NotificationCycle ==
    LET n == Len(kde_op.notifications) IN
    /\ kde_op.op = "next_notification" =>
          /\ kde_notifications = kde_op.notifications
          /\ notification_index = IF n = 0 THEN kde_op.index
                                  ELSE IF kde_op.index = n - 1 THEN 0
                                  ELSE kde_op.index + 1
    /\ kde_op.op = "prev_notification" =>
          /\ kde_notifications = kde_op.notifications
          /\ notification_index = IF n = 0 THEN kde_op.index
                                  ELSE IF kde_op.index = 0 THEN n - 1
                                  ELSE kde_op.index - 1

C25_Witness ==
    /\ kde_op.op = "next_notification"
    /\ Len(kde_op.notifications) = 3 /\ kde_op.index = 2
    /\ notification_index = 0

\* C26: dismiss_notification() on a dismissable current notification sends one
\* dismiss, of that notification's id, to the current device, and removes that
\* notification and no other, the others keeping their order; on a current
\* notification that is not dismissable, on an empty list and with no device
\* selected it sends nothing and leaves the list and the index as they were.
C26_DismissExactly ==
    kde_op.op = "dismiss_notification" =>
        LET list == kde_op.notifications
            i == kde_op.index
        IN  IF list # <<>> /\ kde_op.device # Missing /\ list[i + 1].dismissable
            THEN /\ dismissed = <<[device_id |-> kde_op.device, id |-> list[i + 1].id]>>
                 /\ Len(kde_notifications) = Len(list) - 1
                 /\ \A k \in 1..i : kde_notifications[k] = list[k]
                 /\ \A k \in (i + 1)..(Len(list) - 1) : kde_notifications[k] = list[k + 1]
            ELSE /\ dismissed = <<>>
                 /\ kde_notifications = list
                 /\ notification_index = i

C26_Witness ==
    /\ kde_op.op = "dismiss_notification"
    /\ Len(kde_op.notifications) = 3 /\ kde_op.index = 0
    /\ dismissed = <<[device_id |-> Some("d1"), id |-> 1]>>
    /\ kde_notifications = <<Notification(2), Notification(3)>>

\* C29: after any sequence of run(), next_notification(), prev_notification(),
\* dismiss_notification() and dismiss_all(), one at a time, a non-empty list
\* has the index in its range, and no callback has subscripted out of range.
C29_IndexInRange ==
    /\ kde_notifications # <<>> =>
          0 <= notification_index /\ notification_index < Len(kde_notifications)
    /\ kde_raised = "none"

C29_Witness ==
    /\ kde_op.op = "run"
    /\ Len(kde_op.notifications) = 3 /\ kde_op.index = 2
    /\ Len(kde_notifications) = 1 /\ notification_index = 0

\* C30: while run() and dismiss_notification() interleave on one instance, every
\* subscript of the callback is at an index in the range of the list it reads.
C30_ReadInRange == read_at # None => read_at.index < read_at.length

====
